---- MODULE Spec2Model ----
(***************************************************************************)
(* StreamLive Analytics (src/app.py): the "Iniciar Analisis" handler, the  *)
(* paginated live-chat polling loop fetch_live_chat_comments, and the      *)
(* sentiment proportions of perform_sentiment_analysis.                    *)
(*                                                                         *)
(* Conventions.  Python None is the string NoneVal where the value is a    *)
(* string (tokens, chat ids) and the empty sequence for the video id.  A   *)
(* Python dict is a function on the keys it has; dict.get is Get.  A local *)
(* that has not been assigned yet is the record Unbound.  Durations in     *)
(* seconds are records [s, ms] (whole seconds, remaining milliseconds);    *)
(* proportions are integers in hundredths; VADER compound scores are       *)
(* integers in units of 0.0001.                                            *)
(***************************************************************************)
EXTENDS Integers, Sequences, FiniteSets, TLC

\* ---------------------------------------------------------------- bounds
MaxFetches == 2        \* the upstream stub stops handing out tokens after this many pages
MaxPageLen == 2        \* items per page delivered by the upstream stub
MaxRows    == 8        \* rows of the data frame in the sentiment specification

\* ------------------------------------------------------ program constants
IdLen             == 11
DefaultPollingMs  == 10000
MillisPerSecond   == 1000
PositiveThreshold == 500
NegativeThreshold == -500
PropScale         == 100
BadRequest        == 400

NoneVal == "<None>"
Unbound == [unbound |-> TRUE]
NoFault == [type |-> "none"]

Get(d, k, default) == IF k \in DOMAIN d THEN d[k] ELSE default

\* Python truthiness of an optional string: None and "" are falsy.
Truthy(s) == s # NoneVal /\ s # ""

\* ------------------------------------------------------------ get_video_id
IdChars ==
    {"a", "b", "c", "d", "e", "f", "g", "h", "i", "j", "k", "l", "m", "n", "o", "p", "q", "r",
     "s", "t", "u", "v", "w", "x", "y", "z", "A", "B", "C", "D", "E", "F", "G", "H", "I", "J",
     "K", "L", "M", "N", "O", "P", "Q", "R", "S", "T", "U", "V", "W", "X", "Y", "Z", "0", "1",
     "2", "3", "4", "5", "6", "7", "8", "9", "_", "-"}

\* The alternatives of the first pattern, in the order the regex tries them.
MainPrefixes ==
    << <<"v", "=">>,
       <<"/", "l", "i", "v", "e", "/">>,
       <<".", "b", "e", "/">> >>

\* The literal prefix of the second pattern.
ShortPrefixes ==
    << <<"y", "o", "u", "t", "u", "b", "e", ".", "c", "o", "m", "/", "l", "i", "v", "e", "/">> >>

LiteralAt(url, i, lit) ==
    /\ i + Len(lit) - 1 <= Len(url)
    /\ SubSeq(url, i, i + Len(lit) - 1) = lit

IdAt(url, j) ==
    /\ j + IdLen - 1 <= Len(url)
    /\ \A k \in j..(j + IdLen - 1) : url[k] \in IdChars

\* re.search: the leftmost position where some alternative followed by an
\* identifier matches, the first such alternative there; group(1) is the id.
re_search(prefixes, url) ==
    LET hit(i, a) == LiteralAt(url, i, prefixes[a]) /\ IdAt(url, i + Len(prefixes[a]))
        starts == {i \in 1..Len(url) : \E a \in DOMAIN prefixes : hit(i, a)}
    IN  IF starts = {} THEN <<>>
        ELSE LET i == CHOOSE x \in starts : \A y \in starts : x <= y
                 a == CHOOSE x \in DOMAIN prefixes :
                          hit(i, x) /\ \A y \in DOMAIN prefixes : hit(i, y) => x <= y
                 j == i + Len(prefixes[a])
             IN  SubSeq(url, j, j + IdLen - 1)

get_video_id(url) ==
    LET m == re_search(MainPrefixes, url)
    IN  IF m # <<>> THEN m ELSE re_search(ShortPrefixes, url)

\* https://www.youtube.com/watch?v=ABCDEFGHIJK
UrlWatch ==
    <<"h", "t", "t", "p", "s", ":", "/", "/", "w", "w", "w", ".", "y", "o", "u", "t", "u",
      "b", "e", ".", "c", "o", "m", "/", "w", "a", "t", "c", "h", "?", "v", "=", "A", "B", "C",
      "D", "E", "F", "G", "H", "I", "J", "K">>
\* https://youtu.be/ABCDEFGHIJK
UrlShort ==
    <<"h", "t", "t", "p", "s", ":", "/", "/", "y", "o", "u", "t", "u", ".", "b", "e", "/",
      "A", "B", "C", "D", "E", "F", "G", "H", "I", "J", "K">>
\* https://www.youtube.com/live/ABCDEFGHIJK
UrlLive ==
    <<"h", "t", "t", "p", "s", ":", "/", "/", "w", "w", "w", ".", "y", "o", "u", "t", "u",
      "b", "e", ".", "c", "o", "m", "/", "l", "i", "v", "e", "/", "A", "B", "C", "D", "E", "F",
      "G", "H", "I", "J", "K">>
\* not a url
UrlNotAUrl ==
    <<"n", "o", "t", " ", "a", " ", "u", "r", "l">>
\* https://youtu.be/ABC
UrlTooShort ==
    <<"h", "t", "t", "p", "s", ":", "/", "/", "y", "o", "u", "t", "u", ".", "b", "e", "/",
      "A", "B", "C">>
\* the text input left empty
UrlEmpty == <<>>

Urls == {UrlWatch, UrlShort, UrlLive, UrlNotAUrl, UrlTooShort, UrlEmpty}
ApiKeys == {"", "KEY"}

\* --------------------------------------------------------- upstream data
\* Chat items as the API delivers them.  A tombstone carries no
\* displayMessage.  ItemA is published after ItemB: pages need not be
\* chronological.
ItemA == [snippet |-> [displayMessage |-> "love", publishedAt |-> "2024-05-01T10:00:02Z"]]
ItemB == [snippet |-> [displayMessage |-> "hate", publishedAt |-> "2024-05-01T10:00:01Z"]]
Tombstone == [snippet |-> [type |-> "tombstone", publishedAt |-> "2024-05-01T10:00:03Z"]]
Items == {ItemA, ItemB, Tombstone}

Pages == UNION {[1..n -> Items] : n \in 0..MaxPageLen}
NextPageTokens == {"", "T1", "T2"}
PollingIntervalsMs == {1500, 5000}
ResponseKeys == {"items", "nextPageToken", "pollingIntervalMillis"}

MkResponse(keys, p, t, m) ==
    [k \in keys |-> CASE k = "items" -> p
                      [] k = "nextPageToken" -> t
                      [] OTHER -> m]

\* liveChatMessages().list responses; every key is optional.  With last set
\* the stub hands out no further usable token.
ChatResponses(last) ==
    {MkResponse(keys, p, t, m) :
        keys \in SUBSET ResponseKeys, p \in Pages,
        t \in (IF last THEN {""} ELSE NextPageTokens), m \in PollingIntervalsMs}

\* What request.execute() can raise.
ExecuteFaults ==
    { [type |-> "HttpError", status |-> 400, diag |-> "liveChatEnded"],
      [type |-> "HttpError", status |-> 403, diag |-> "quotaExceeded"],
      [type |-> "Exception", diag |-> "timed out"] }

\* videos().list responses
VideoResponses ==
    { <<>>,
      [items |-> <<>>],
      [items |-> << [id |-> "ABCDEFGHIJK"] >>],
      [items |-> << [liveStreamingDetails |-> <<>>] >>],
      [items |-> << [liveStreamingDetails |-> [actualEndTime |-> "2024-05-01T11:00:00Z"]] >>],
      [items |-> << [liveStreamingDetails |-> [activeLiveChatId |-> "chat1"]] >>] }

\* ------------------------------------------------------------- st.error
MsgNoKey      == "Por favor, ingresa tu clave de API de YouTube para continuar."
MsgNoUrl      == "Por favor, ingresa una URL de YouTube valida."
MsgBadUrl     == "URL de YouTube invalida. Por favor, asegurate de que sea un enlace de livestream."
MsgConnect    == "Error al conectar a la API. Verifica tu clave de API. Detalles: "
MsgNoChat     == "No se pudo encontrar un chat en vivo activo para esta URL."
MsgVideoApi   == "Error en la API: "
MsgVideoOther == "Ocurrio un error inesperado. Por favor, intenta con otra URL. Detalle del error: "
MsgChat400    == "Error al obtener los comentarios: El livestream puede haber terminado o no tener chat habilitado."
MsgChatApi    == "Ocurrio un error con la API de YouTube: "
MsgChatOther  == "Ocurrio un error inesperado: "

st_error(text, detail) == [text |-> text, detail |-> detail]

\* ------------------------------------------------- fetch_live_chat_comments
\* Every HttpError reported as the ended-chat message.
except_message_no_status(e) ==
    IF e.type = "HttpError"
    THEN st_error(MsgChat400, "")
    ELSE st_error(MsgChatOther, e.diag)

\* The except clauses of the polling loop: the message reported for e.
except_message(e) ==
    IF e.type = "HttpError"
    THEN IF e.status = BadRequest
         THEN st_error(MsgChat400, "")
         ELSE st_error(MsgChatApi, e.diag)
    ELSE st_error(MsgChatOther, e.diag)

\* The loop never leaves on a page without a token.
should_break_never(token) == FALSE

\* if not page_token: break
should_break(token) == ~Truthy(token)

\* The except clauses fall through to the next iteration.
after_except_retry == "polling"

\* The break that ends each except clause: the function returns.
after_except == "returned"

\* The key whose lookup raises KeyError for this item, "" when none does.
item_key_error(item) ==
    IF "snippet" \notin DOMAIN item THEN "snippet"
    ELSE IF "displayMessage" \notin DOMAIN item.snippet THEN "displayMessage"
    ELSE IF "publishedAt" \notin DOMAIN item.snippet THEN "publishedAt"
    ELSE ""

to_comment(item) ==
    [text |-> item.snippet.displayMessage, timestamp |-> item.snippet.publishedAt]

\* Index of the first item whose processing raises, Len(items) + 1 when none.
first_raising(items) ==
    LET bad == {i \in 1..Len(items) : item_key_error(items[i]) # ""}
    IN  IF bad = {} THEN Len(items) + 1
        ELSE CHOOSE i \in bad : \A j \in bad : i <= j

\* The for loop: comments after appending the items up to (excluding) index n.
append_items(store, items, n) ==
    store \o [i \in 1..(n - 1) |-> to_comment(items[i])]

\* The default taken as seconds instead of milliseconds.
polling_seconds_unscaled_default(resp) ==
    LET ms == Get(resp, "pollingIntervalMillis", DefaultPollingMs \div MillisPerSecond)
    IN  [s |-> ms \div MillisPerSecond, ms |-> ms % MillisPerSecond]

\* response.get('pollingIntervalMillis', 10000) / 1000, in seconds
polling_seconds(resp) ==
    LET ms == Get(resp, "pollingIntervalMillis", DefaultPollingMs)
    IN  [s |-> ms \div MillisPerSecond, ms |-> ms % MillisPerSecond]

\* ------------------------------------------------------------------ state
VARIABLES
    pc,                \* where the script is: idle, polling, waiting, returned, shown, stopped
    video_id,          \* result of get_video_id
    live_chat_id,
    comments,          \* the store being filled by fetch_live_chat_comments
    page_token,
    response,          \* the last response of request.execute()
    polling_interval,
    errors,            \* the st.error calls of this run, in order
    df_comments,       \* the data frame's rows
    sentiment_results,
    fetches,           \* history: requests issued in this drain
    waits,             \* history: time.sleep calls completed in this drain
    last_wait,         \* history: duration of the last completed sleep
    sent_token,        \* history: pageToken of the last request issued
    fault,             \* history: the exception that ended the loop
    delivered          \* history: the items of the pages delivered, concatenated

vars == <<pc, video_id, live_chat_id, comments, page_token, response, polling_interval,
          errors, df_comments, sentiment_results, fetches, waits, last_wait, sent_token,
          fault, delivered>>

loopVars == <<comments, page_token, response, polling_interval>>
histVars == <<fetches, waits, last_wait, sent_token, fault, delivered>>

Init ==
    /\ pc = "idle"
    /\ video_id = <<>>
    /\ live_chat_id = NoneVal
    /\ comments = <<>>
    /\ page_token = NoneVal
    /\ response = Unbound
    /\ polling_interval = Unbound
    /\ errors = <<>>
    /\ df_comments = <<>>
    /\ sentiment_results = Unbound
    /\ fetches = 0
    /\ waits = 0
    /\ last_wait = Unbound
    /\ sent_token = NoneVal
    /\ fault = NoFault
    /\ delivered = <<>>

\* ------------------------------------------------ perform_sentiment_analysis
\* The external analyzer: polarity_scores(text)['compound'], as a table.
Texts == {"love", "hate", "hola", "edge"}
polarity_compound(text) ==
    CASE text = "love" -> 6369
      [] text = "hate" -> -5719
      [] text = "edge" -> 500
      [] OTHER -> 0

categorize_sentiment(score) ==
    IF score >= PositiveThreshold THEN "Positivo"
    ELSE IF score <= NegativeThreshold THEN "Negativo"
    ELSE "Neutral"

Categories == {"Positivo", "Negativo", "Neutral"}

category_count(df, cat) ==
    Cardinality({i \in 1..Len(df) : categorize_sentiment(polarity_compound(df[i].text)) = cat})

\* Truncation instead of rounding.
round_hundredths_truncated(c, t) == (PropScale * c) \div t

\* round(c / t, 2) in hundredths.  numpy rounds to the nearest, ties to even;
\* the ties within the bounds (c / 8) are exact in binary floating point.
round_hundredths(c, t) ==
    LET q == (PropScale * c) \div t
        r == (PropScale * c) % t
    IN  IF 2 * r < t THEN q
        ELSE IF 2 * r > t THEN q + 1
        ELSE IF q % 2 = 0 THEN q ELSE q + 1

\* value_counts(normalize=True).round(2): only the categories that occur.
perform_sentiment_analysis(df) ==
    IF df = <<>> THEN <<>>
    ELSE LET present == {cat \in Categories : category_count(df, cat) > 0}
         IN  [cat \in present |-> round_hundredths(category_count(df, cat), Len(df))]

\* ------------------------------------------------ "Iniciar Analisis" handler
\* live_chat_id as the handler reads it out of the videos().list response.
active_live_chat_id(video_response) ==
    LET items == Get(video_response, "items", <<>>)
    IN  IF items = <<>> THEN NoneVal
        ELSE IF "liveStreamingDetails" \notin DOMAIN items[1] THEN NoneVal
        ELSE IF DOMAIN items[1].liveStreamingDetails = {} THEN NoneVal
        ELSE Get(items[1].liveStreamingDetails, "activeLiveChatId", NoneVal)

\* Only the empty string counts as a missing chat id.
no_active_chat_empty_only(chat) == chat = ""

\* if not live_chat_id
no_active_chat(chat) == ~Truthy(chat)

BuildOutcomes == {NoFault, [type |-> "Exception", diag |-> "invalid developerKey"]}

VideoOutcomes ==
    {[raised |-> e] : e \in ExecuteFaults} \cup {[returned |-> r] : r \in VideoResponses}

\* The run ends before any chat request: the script stops or falls through.
Rejected(vid, chat, err) ==
    /\ pc' = "stopped"
    /\ video_id' = vid
    /\ live_chat_id' = chat
    /\ errors' = <<err>>
    /\ comments' = <<>>
    /\ page_token' = NoneVal

\* The button handler up to the call of fetch_live_chat_comments.  Every
\* click reruns the script from fresh variables, so one run is modelled.
Start ==
    /\ pc = "idle"
    /\ response' = Unbound
    /\ polling_interval' = Unbound
    /\ df_comments' = <<>>
    /\ sentiment_results' = Unbound
    /\ fetches' = 0
    /\ waits' = 0
    /\ last_wait' = Unbound
    /\ sent_token' = NoneVal
    /\ fault' = NoFault
    /\ delivered' = <<>>
    /\ \E api_key \in ApiKeys, youtube_url \in Urls,
          built \in BuildOutcomes, video \in VideoOutcomes :
          LET vid == get_video_id(youtube_url)
          IN  IF api_key = "" THEN Rejected(<<>>, NoneVal, st_error(MsgNoKey, ""))
              ELSE IF youtube_url = <<>> THEN Rejected(<<>>, NoneVal, st_error(MsgNoUrl, ""))
              ELSE IF vid = <<>> THEN Rejected(vid, NoneVal, st_error(MsgBadUrl, ""))
              ELSE IF built # NoFault
                   THEN Rejected(vid, NoneVal, st_error(MsgConnect, built.diag))
              ELSE IF "raised" \in DOMAIN video
                   THEN Rejected(vid, NoneVal,
                                 IF video.raised.type = "HttpError"
                                 THEN st_error(MsgVideoApi, video.raised.diag)
                                 ELSE st_error(MsgVideoOther, video.raised.diag))
              ELSE IF no_active_chat(active_live_chat_id(video.returned))
                   THEN Rejected(vid, active_live_chat_id(video.returned),
                                 st_error(MsgNoChat, ""))
              ELSE /\ pc' = "polling"
                   /\ video_id' = vid
                   /\ live_chat_id' = active_live_chat_id(video.returned)
                   /\ errors' = <<>>
                   /\ comments' = <<>>
                   /\ page_token' = NoneVal

\* One iteration of the while loop up to the sleep: the request, the for
\* loop over the items, the interval and the token, or an except clause.
FetchPage ==
    /\ pc = "polling"
    /\ fetches' = fetches + 1
    /\ sent_token' = page_token
    /\ UNCHANGED <<video_id, live_chat_id, df_comments, sentiment_results, waits, last_wait>>
    /\ \/ \E e \in ExecuteFaults :
            /\ fault' = e
            /\ errors' = Append(errors, except_message(e))
            /\ pc' = after_except
            /\ UNCHANGED <<loopVars, delivered>>
       \/ \E resp \in ChatResponses(fetches + 1 >= MaxFetches) :
            LET items == Get(resp, "items", <<>>)
                n == first_raising(items)
            IN  /\ response' = resp
                /\ delivered' = delivered \o items
                /\ comments' = append_items(comments, items, n)
                /\ IF n <= Len(items)
                   THEN LET e == [type |-> "KeyError", diag |-> item_key_error(items[n])]
                        IN  /\ fault' = e
                            /\ errors' = Append(errors, except_message(e))
                            /\ pc' = after_except
                            /\ UNCHANGED <<page_token, polling_interval>>
                   ELSE /\ polling_interval' = polling_seconds(resp)
                        /\ page_token' = Get(resp, "nextPageToken", NoneVal)
                        /\ pc' = IF should_break(Get(resp, "nextPageToken", NoneVal))
                                 THEN "returned" ELSE "waiting"
                        /\ UNCHANGED <<fault, errors>>

\* time.sleep(polling_interval)
Sleep ==
    /\ pc = "waiting"
    /\ pc' = "polling"
    /\ waits' = waits + 1
    /\ last_wait' = polling_interval
    /\ UNCHANGED <<video_id, live_chat_id, loopVars, errors, df_comments, sentiment_results,
                   fetches, sent_token, fault, delivered>>

\* The handler after fetch_live_chat_comments returns: the data frame and
\* the sentiment metrics when there are comments.
Show ==
    /\ pc = "returned"
    /\ pc' = "shown"
    /\ IF comments # <<>>
       THEN /\ df_comments' = comments
            /\ sentiment_results' = perform_sentiment_analysis(comments)
       ELSE UNCHANGED <<df_comments, sentiment_results>>
    /\ UNCHANGED <<video_id, live_chat_id, loopVars, errors, histVars>>

Next == Start \/ FetchPage \/ Sleep \/ Show

Spec == Init /\ [][Next]_vars

\* ------------------------------------------- the sentiment function alone
\* perform_sentiment_analysis applied to data frames built row by row.
AppendRow ==
    /\ Len(df_comments) < MaxRows
    /\ \E text \in Texts :
          df_comments' = Append(df_comments,
                                [text |-> text, timestamp |-> "2024-05-01T10:00:00Z"])
    /\ sentiment_results' = Unbound
    /\ UNCHANGED <<pc, video_id, live_chat_id, loopVars, errors, histVars>>

Analyze ==
    /\ sentiment_results = Unbound
    /\ sentiment_results' = perform_sentiment_analysis(df_comments)
    /\ UNCHANGED <<pc, video_id, live_chat_id, loopVars, errors, df_comments, histVars>>

SentimentNext == AppendRow \/ Analyze

SentimentSpec == Init /\ [][SentimentNext]_vars

\* ================================================================= claims
LoopEnded == pc \in {"returned", "shown"}
LoopRunning == pc \in {"polling", "waiting"}
HasNextToken(resp) == Truthy(Get(resp, "nextPageToken", NoneVal))

\* C1: drain mode ends as soon as a response carries no next token: the loop
\* has then returned and no wait followed that response; when that response
\* answers the first request (page token None) the drain made exactly one
\* fetch and no wait.
C1_DrainTerminates ==
    (response # Unbound /\ ~HasNextToken(response)) =>
        /\ LoopEnded
        /\ waits = fetches - 1
        /\ (sent_token = NoneVal => fetches = 1 /\ waits = 0)

C1_Witness ==
    /\ pc = "returned"
    /\ fault = NoFault
    /\ response # Unbound
    /\ "nextPageToken" \notin DOMAIN response
    /\ sent_token = NoneVal
    /\ fetches = 1
    /\ waits = 0

\* C2: when a fetch step of the drain fails (an HTTP 400, another HTTP error
\* or any other exception reaches an except clause), the store is exactly
\* what the earlier successful fetches had appended.
C2_ErrorPreservesStore ==
    [][(fetches' = fetches + 1 /\ fault' # NoFault) => comments' = comments]_vars

\* C3: within a drain the store only grows by appending (the store before a
\* step is a prefix of the store after it) and the returned store is the
\* concatenation of the delivered pages, item by item in delivered order.
StoreIsConcatenation ==
    /\ Len(comments) = Len(delivered)
    /\ \A i \in 1..Len(delivered) :
          /\ item_key_error(delivered[i]) = ""
          /\ i <= Len(comments)
          /\ comments[i] = to_comment(delivered[i])

C3_AppendOnlyOrdered ==
    /\ [][/\ Len(comments') >= Len(comments)
          /\ SubSeq(comments', 1, Len(comments)) = comments]_vars
    /\ [](LoopEnded => StoreIsConcatenation)

\* C4: once a fetch of the drain has failed, no further fetch is issued and
\* no further wait is performed.
C4_NoRetry ==
    [][fault # NoFault => (fetches' = fetches /\ waits' = waits)]_vars

C4_Witness ==
    /\ pc = "shown"
    /\ fault # NoFault
    /\ fetches = 2
    /\ waits = 1

ErrorKind(e) ==
    IF e.type = "HttpError"
    THEN IF e.status = 400 THEN "ChatUnavailable" ELSE "UpstreamError"
    ELSE "TransportError"

KindMessage(kind) ==
    CASE kind = "ChatUnavailable" -> MsgChat400
      [] kind = "UpstreamError" -> MsgChatApi
      [] OTHER -> MsgChatOther

LoopFaults == ExecuteFaults \cup {[type |-> "KeyError", diag |-> "displayMessage"]}

C6_ErrorsSurfaced ==
    /\ LoopRunning => (fault = NoFault /\ errors = <<>>)
    /\ LoopEnded =>
          IF fault = NoFault THEN errors = <<>>
          ELSE /\ Len(errors) = 1
               /\ errors[1].text = KindMessage(ErrorKind(fault))
               /\ ErrorKind(fault) # "ChatUnavailable" => errors[1].detail = fault.diag
    /\ \A e1, e2 \in LoopFaults :
          ErrorKind(e1) # ErrorKind(e2) => except_message(e1).text # except_message(e2).text

C6_Witness ==
    /\ pc = "returned"
    /\ fault = [type |-> "HttpError", status |-> 403, diag |-> "quotaExceeded"]
    /\ errors = <<st_error(MsgChatApi, "quotaExceeded")>>
    /\ Len(comments) >= 1

\* C7: for a non-empty data frame the rounded proportions of the categories
\* (a category that does not occur counts 0) each lie between 0.00 and 1.00
\* and sum to 0.99, 1.00 or 1.01.
Proportion(cat) == Get(sentiment_results, cat, 0)

C7_SumToOne ==
    (df_comments # <<>> /\ sentiment_results # Unbound) =>
        /\ \A cat \in Categories : Proportion(cat) \in 0..100
        /\ Proportion("Positivo") + Proportion("Negativo") + Proportion("Neutral")
              \in {99, 100, 101}

C7_Witness ==
    /\ Len(df_comments) = 8
    /\ sentiment_results # Unbound
    /\ DOMAIN sentiment_results = Categories
    /\ Proportion("Positivo") + Proportion("Negativo") + Proportion("Neutral") = 101

\* C8: a chat page is requested only after the URL gave a video id and the
\* video resolved to an active chat id; a run without either has stopped
\* with an error reported, no chat request made and an empty store.
C8_NoFetchWithoutChat ==
    /\ fetches > 0 => (video_id # <<>> /\ Truthy(live_chat_id))
    /\ (pc # "idle" /\ (video_id = <<>> \/ ~Truthy(live_chat_id))) =>
          /\ pc = "stopped"
          /\ Len(errors) = 1
          /\ fetches = 0
          /\ comments = <<>>

C8_Witness ==
    /\ pc = "stopped"
    /\ video_id # <<>>
    /\ live_chat_id = NoneVal
    /\ errors = <<st_error(MsgNoChat, "")>>
    /\ fetches = 0

\* C9: an invocation of the polling function is a single step: it issues
\* exactly one request and never waits.
C9_SingleStep ==
    /\ pc # "waiting"
    /\ waits = 0
    /\ LoopEnded => fetches = 1

\* C10: a fetch step appends the delivered page in full or not at all.
C10_PageAtomic ==
    [][fetches' = fetches + 1 =>
          \/ comments' = comments
          \/ Len(comments') = Len(comments) + Len(Get(response', "items", <<>>))]_vars

====
